---- MODULE Spec2Model ----
(***************************************************************************)
(* StatisticsScreen (src/unnamed/part_000): the health-statistics screen.  *)
(*                                                                         *)
(* Conventions of the model                                                *)
(*   - a numeric value1 is an integer number of hundredths (70.54 -> 7054);*)
(*     arithmetic is exact decimal arithmetic;                             *)
(*   - an instant is an integer number of hours since 2025-01-01 00:00     *)
(*     local time (2025 and 2026 both have 365 days);                      *)
(*   - logged_at is [kind, t]: kind "iso" (a parsable ISO string for the   *)
(*     instant t), "bad" (a present but unparsable string) or "null"       *)
(*     (null / undefined / empty);                                         *)
(*   - a value that may be null is a sequence: <<>> is null, <<v>> is v;   *)
(*   - a 'MM/dd' label is the integer MM*100+dd and a 'yyyy-MM-dd' string  *)
(*     is the integer yyyy*10000+MM*100+dd: both strings are zero padded   *)
(*     and of fixed width, so their lexicographic order is the order of    *)
(*     these integers.                                                     *)
(***************************************************************************)
EXTENDS Integers, Sequences, FiniteSets, TLC

VARIABLES records, stats, selectedMetric, timeRange, selectedDate,
          refreshing, inflight, calcInvoked, lastResult, overlapped,
          everLoaded, newest, trends

vars == <<records, stats, selectedMetric, timeRange, selectedDate,
          refreshing, inflight, calcInvoked, lastResult, overlapped,
          everLoaded, newest, trends>>

\* ------------------------------------------------------------------ bounds

\* Longest collection the data source returns.
MaxLen == 2

\* Most loadData calls in flight at once.
MaxInflight == 2

\* --------------------------------------------------------------- metrics

METRIC_TYPES == <<"weight", "heartRate", "steps", "sleep", "water">>

MetricSet == {METRIC_TYPES[i] : i \in 1..Len(METRIC_TYPES)}

isValidMetric(metric) == metric \in MetricSet

chartTypeOf(metric) ==
  CASE metric = "weight" -> "line"
    [] metric = "heartRate" -> "line"
    [] metric = "steps" -> "bar"
    [] metric = "sleep" -> "line"
    [] metric = "water" -> "bar"

getMetricConfig(metric) ==
  IF isValidMetric(metric) THEN [chartType |-> chartTypeOf(metric)]
  ELSE [chartType |-> chartTypeOf("weight")]

\* ------------------------------------------------------------- null, dates

Null == <<>>

Some(v) == <<v>>

\* The time value of an Invalid Date (NaN): every comparison with it is false.
InvalidDate == -1

parseISO(l) == IF l.kind = "iso" THEN l.t ELSE InvalidDate

isValid(d) == d /= InvalidDate

\* r.logged_at is falsy (null, undefined or the empty string)
Falsy(l) == l.kind = "null"

\* a >= b on Dates (valueOf comparison; false when either is NaN)
DateGe(a, b) == isValid(a) /\ isValid(b) /\ a >= b

DateLe(a, b) == isValid(a) /\ isValid(b) /\ a <= b

subDays(d, n) == d - n * 24

DayOf(t) == t \div 24

YearOf(t) == 2025 + DayOf(t) \div 365

MonthLengths == <<31, 28, 31, 30, 31, 30, 31, 31, 30, 31, 30, 31>>

RECURSIVE MonthDay(_, _)
\* <<month, day of month>> of the 0-based day `doy` of the year, from month m on
MonthDay(doy, m) ==
  IF doy < MonthLengths[m] THEN <<m, doy + 1>>
  ELSE MonthDay(doy - MonthLengths[m], m + 1)

MonthOf(t) == MonthDay(DayOf(t) % 365, 1)[1]

DateOf(t) == MonthDay(DayOf(t) % 365, 1)[2]

\* format(d, 'MM/dd'); date-fns throws RangeError on an Invalid Date
formatMMdd(d) ==
  IF isValid(d) THEN [raised |-> FALSE, value |-> MonthOf(d) * 100 + DateOf(d)]
  ELSE [raised |-> TRUE, value |-> 0]

\* format(d, 'yyyy-MM-dd'); date-fns throws RangeError on an Invalid Date
formatYMD(d) ==
  IF isValid(d)
  THEN [raised |-> FALSE, value |-> YearOf(d) * 10000 + MonthOf(d) * 100 + DateOf(d)]
  ELSE [raised |-> TRUE, value |-> 0]

\* ---------------------------------------------------------- calculateStats

RECURSIVE SumValues(_)
SumValues(s) == IF s = <<>> THEN 0 ELSE Head(s).value1 + SumValues(Tail(s))

RECURSIVE MinValue(_)
MinValue(s) ==
  IF Len(s) = 1 THEN s[1].value1
  ELSE LET m == MinValue(Tail(s)) IN IF s[1].value1 < m THEN s[1].value1 ELSE m

RECURSIVE MaxValue(_)
MaxValue(s) ==
  IF Len(s) = 1 THEN s[1].value1
  ELSE LET m == MaxValue(Tail(s)) IN IF s[1].value1 > m THEN s[1].value1 ELSE m

\* Mutant: no rounding, the integer part of num/den hundredths.
toFixedNone(num, den) ==
  IF num >= 0 THEN num \div den ELSE -((-num) \div den)

\* parseFloat((num/den).toFixed(1)) in hundredths: the nearest tenth, a tie
\* going away from zero
toFixed1(num, den) ==
  IF num >= 0 THEN 10 * ((2 * num + 10 * den) \div (20 * den))
  ELSE -10 * ((2 * (-num) + 10 * den) \div (20 * den))

Threshold(metric) ==
  CASE metric = "weight" -> 50
    [] metric = "heartRate" -> 500
    [] metric = "steps" -> 50000
    [] metric = "sleep" -> 50
    [] metric = "water" -> 100
    [] OTHER -> 0

\* Mutant: the sign of the change is lost.
ClassifyMagnitude(change, threshold) ==
  IF change > threshold \/ -change > threshold THEN "up" ELSE "stable"

Classify(change, threshold) ==
  IF change > threshold THEN "up"
  ELSE IF change < -threshold THEN "down"
  ELSE "stable"

\* `x || null` on a number: 0 is falsy
OrNull(x) == IF x = 0 THEN Null ELSE Some(x)

EmptySummary ==
  [current |-> Null, avg |-> Null, min |-> Null, max |-> Null,
   trend |-> "none", change |-> 0]

InitialStats == [m \in MetricSet |-> EmptySummary]

metricRecordsOf(data, metric) == SelectSeq(data, LAMBDA r : r.metric_type = metric)

summaryOf(metricRecords, metric) ==
  LET n == Len(metricRecords)
      first == metricRecords[1].value1
      last == metricRecords[n].value1
      change == IF n >= 2 THEN last - first ELSE 0
      trend == IF n >= 2 THEN Classify(change, Threshold(metric)) ELSE "none"
  IN [current |-> OrNull(last),
      avg |-> Some(toFixed1(SumValues(metricRecords), n)),
      min |-> Some(toFixed1(MinValue(metricRecords), 1)),
      max |-> Some(toFixed1(MaxValue(metricRecords), 1)),
      trend |-> trend,
      change |-> toFixed1(change, 1)]

\* Mutant: calculateStats spreads the latest `stats` (loadData re-created on
\* every render).
closureStatsLatest == stats

\* The `stats` that calculateStats spreads into newStats. loadData is memoised
\* with an empty dependency list, so the calculateStats it calls is the one of
\* the first render, whose `stats` is the initial state.
closureStats == InitialStats

calculateStats(data) ==
  [m \in MetricSet |->
     LET metricRecords == metricRecordsOf(data, m)
     IN IF Len(metricRecords) > 0 THEN summaryOf(metricRecords, m)
        ELSE closureStats[m]]

\* --------------------------------------------------- getSelectedDateRecords

RECURSIVE AnyFormatRaises(_)
\* some record with a truthy logged_at makes format() throw
AnyFormatRaises(recs) ==
  IF recs = <<>> THEN FALSE
  ELSE (~Falsy(Head(recs).logged_at) /\ ~isValid(parseISO(Head(recs).logged_at)))
       \/ AnyFormatRaises(Tail(recs))

getSelectedDateRecords(recs, date) ==
  IF AnyFormatRaises(recs) THEN [raised |-> TRUE, value |-> <<>>]
  ELSE [raised |-> FALSE,
        value |-> SelectSeq(recs, LAMBDA r :
                    /\ ~Falsy(r.logged_at)
                    /\ formatYMD(parseISO(r.logged_at)).value = date)]

\* ------------------------------------------------------------ getChartData

daysToShow(range) ==
  IF range = "year" THEN 365 ELSE IF range = "month" THEN 30 ELSE 7

RECURSIVE InsertByTime(_, _)
\* r inserted into the sequence s (ascending by time) after its equals
InsertByTime(r, s) ==
  IF s = <<>> THEN <<r>>
  ELSE IF parseISO(r.logged_at) < parseISO(Head(s).logged_at) THEN <<r>> \o s
  ELSE <<Head(s)>> \o InsertByTime(r, Tail(s))

RECURSIVE SortByTime(_)
\* .sort((a, b) => parseISO(a.logged_at).getTime() - parseISO(b.logged_at).getTime())
SortByTime(s) ==
  IF s = <<>> THEN <<>>
  ELSE InsertByTime(s[Len(s)], SortByTime(SubSeq(s, 1, Len(s) - 1)))

\* Mutant: the lower bound of the window is exclusive.
inWindowExclusive(r, metric, startDate) ==
  /\ ~Falsy(r.logged_at)
  /\ isValid(parseISO(r.logged_at))
  /\ parseISO(r.logged_at) > startDate
  /\ r.metric_type = metric

inWindow(r, metric, startDate) ==
  /\ ~Falsy(r.logged_at)
  /\ DateGe(parseISO(r.logged_at), startDate)
  /\ r.metric_type = metric

selectedRecordsOf(recs, metric, range, today) ==
  SortByTime(SelectSeq(recs, LAMBDA r :
    inWindow(r, metric, subDays(today, daysToShow(range)))))

dateKeyOf(r) == formatMMdd(parseISO(r.logged_at))

RECURSIVE groupByDateKey(_)
\* groupedData: date key -> {sum, count}
groupByDateKey(sel) ==
  IF sel = <<>> THEN << >>
  ELSE LET prev == groupByDateKey(SubSeq(sel, 1, Len(sel) - 1))
           r == sel[Len(sel)]
           k == dateKeyOf(r).value
           old == IF k \in DOMAIN prev THEN prev[k] ELSE [sum |-> 0, count |-> 0]
       IN [x \in (DOMAIN prev) \cup {k} |->
             IF x = k THEN [sum |-> old.sum + r.value1, count |-> old.count + 1]
             ELSE prev[x]]

RECURSIVE SortedKeys(_)
\* Object.keys(groupedData).sort(): ascending
SortedKeys(S) ==
  IF S = {} THEN <<>>
  ELSE LET lo == CHOOSE x \in S : \A y \in S : x <= y
       IN <<lo>> \o SortedKeys(S \ {lo})

\* labels: ['暂无数据']
NoDataLabel == 0

NoData ==
  [raised |-> FALSE, labels |-> <<NoDataLabel>>, data |-> <<[sum |-> 0, count |-> 1]>>]

\* A data point sum/count is kept as the exact fraction [sum, count].
getChartData(recs, metric, range, today) ==
  LET sel == selectedRecordsOf(recs, metric, range, today)
      groupedData == groupByDateKey(sel)
      dates == SortedKeys(DOMAIN groupedData)
  IN IF \E i \in 1..Len(sel) : dateKeyOf(sel[i]).raised
     THEN [raised |-> TRUE, labels |-> <<>>, data |-> <<>>]
     ELSE IF Len(dates) = 0 THEN NoData
     ELSE [raised |-> FALSE, labels |-> dates,
           data |-> [i \in 1..Len(dates) |-> groupedData[dates[i]]]]

\* ------------------------------------------------------------- renderChart

hasMetricRecords(recs, metric) ==
  Len(SelectSeq(recs, LAMBDA r : r.metric_type = metric)) /= 0

renderChart(recs, metric, range, today) ==
  LET chartData == getChartData(recs, metric, range, today)
  IN IF chartData.raised THEN [raised |-> TRUE, view |-> "none", data |-> chartData]
     ELSE IF ~hasMetricRecords(recs, metric)
     THEN [raised |-> FALSE, view |-> "noData", data |-> chartData]
     ELSE [raised |-> FALSE, view |-> getMetricConfig(metric).chartType,
           data |-> chartData]

\* ------------------------------------------------------- getWeekComparison

\* Day 0 (2025-01-01) is a Wednesday; weeks start on Sunday.
startOfWeek(t) == (DayOf(t) - ((DayOf(t) + 3) % 7)) * 24

\* Saturday 23:59:59.999, to the hour
endOfWeek(t) == startOfWeek(t) + 7 * 24 - 1

\* Mutant: the end of the week is exclusive.
weekRecordsOpenEnd(recs, metric, from, to) ==
  SelectSeq(recs, LAMBDA r :
    /\ ~Falsy(r.logged_at)
    /\ DateGe(parseISO(r.logged_at), from)
    /\ isValid(parseISO(r.logged_at))
    /\ parseISO(r.logged_at) < to
    /\ r.metric_type = metric)

weekRecords(recs, metric, from, to) ==
  SelectSeq(recs, LAMBDA r :
    /\ ~Falsy(r.logged_at)
    /\ DateGe(parseISO(r.logged_at), from)
    /\ DateLe(parseISO(r.logged_at), to)
    /\ r.metric_type = metric)

getWeekComparison(recs, metric, today) ==
  LET cur == weekRecords(recs, metric, startOfWeek(today), endOfWeek(today))
      lst == weekRecords(recs, metric, startOfWeek(subDays(today, 7)),
                         endOfWeek(subDays(today, 7)))
      cs == SumValues(cur)
      cn == IF Len(cur) > 0 THEN Len(cur) ELSE 1
      ls == SumValues(lst)
      ln == IF Len(lst) > 0 THEN Len(lst) ELSE 1
  IN [raised |-> FALSE,
      currentWeekRecords |-> cur,
      lastWeekRecords |-> lst,
      currentWeekAvg |-> toFixed1(cs, cn),
      lastWeekAvg |-> toFixed1(ls, ln),
      change |-> toFixed1(cs * ln - ls * cn, cn * ln)]

\* ---------------------------------------------------------- getMarkedDates

colorOf(metric) ==
  CASE metric = "weight" -> "#4F46E5"
    [] metric = "heartRate" -> "#DC2626"
    [] metric = "steps" -> "#10B981"
    [] metric = "sleep" -> "#8B5CF6"
    [] metric = "water" -> "#0EA5E9"
    [] OTHER -> "#4F46E5"

RECURSIVE markRecords(_)
\* marked after records.forEach: date key -> marker, the first record of a day wins
markRecords(recs) ==
  IF recs = <<>> THEN << >>
  ELSE LET prev == markRecords(SubSeq(recs, 1, Len(recs) - 1))
           r == recs[Len(recs)]
           k == formatYMD(parseISO(r.logged_at)).value
       IN IF Falsy(r.logged_at) \/ k \in DOMAIN prev THEN prev
          ELSE [x \in (DOMAIN prev) \cup {k} |->
                  IF x = k
                  THEN [marked |-> TRUE, dotColor |-> Some(colorOf(r.metric_type)),
                        selected |-> FALSE]
                  ELSE prev[x]]

getMarkedDates(recs, date) ==
  LET marked == markRecords(recs)
      old == IF date \in DOMAIN marked THEN marked[date]
             ELSE [marked |-> FALSE, dotColor |-> Null, selected |-> FALSE]
  IN IF AnyFormatRaises(recs) THEN [raised |-> TRUE, value |-> << >>]
     ELSE [raised |-> FALSE,
           value |-> [x \in (DOMAIN marked) \cup {date} |->
                        IF x = date THEN [old EXCEPT !.selected = TRUE]
                        ELSE marked[x]]]

\* ------------------------------------------------------------ the screen

\* new Date() of the renders: Friday 2026-01-02 12:00
Today == 366 * 24 + 12

Ranges == {"week", "month", "year"}

\* strings handleSelectMetric may be called with
MetricInputs == MetricSet \cup {"mood"}

\* days the calendar offers to onDayPress
DayChoices == {formatYMD(Today).value, formatYMD(subDays(Today, 1)).value}

Measurement(metric, value, kind, t) ==
  [metric_type |-> metric, value1 |-> value, logged_at |-> [kind |-> kind, t |-> t]]

\* every collection of at most MaxLen measurements drawn from U
Collections(U) == UNION {[1..n -> U] : n \in 0..MaxLen}

\* TrendsScreen after construction: useState(null), useState(true),
\* useState(null); pc is the position of the mount effect's fetchTrends
TrendsInitial ==
  [data |-> Null, loading |-> TRUE, error |-> Null, pc |-> "mounted",
   outcome |-> [kind |-> "none", payload |-> Null, message |-> ""]]

Init ==
  /\ records = <<>>
  /\ stats = InitialStats
  /\ selectedMetric = "weight"
  /\ timeRange = "week"
  /\ selectedDate = formatYMD(Today).value
  /\ refreshing = FALSE
  /\ inflight = <<>>
  /\ calcInvoked = FALSE
  /\ lastResult = Null
  /\ overlapped = FALSE
  /\ everLoaded = {}
  /\ newest = [pending |-> FALSE, result |-> Null]
  /\ trends = TrendsInitial

selection == <<selectedMetric, timeRange, selectedDate>>

\* loadData() is called: apiGet('/health-logs/') is now in flight
startLoad(origin, cap) ==
  /\ Len(inflight) < cap
  /\ inflight' = Append(inflight, origin)
  /\ overlapped' = (inflight /= <<>>)
  /\ calcInvoked' = FALSE
  /\ UNCHANGED <<records, stats, lastResult, everLoaded, selection, trends>>

\* useFocusEffect: the screen gains focus
focus(cap) == startLoad("focus", cap) /\ UNCHANGED refreshing

\* pull to refresh
onRefresh(cap) == startLoad("refresh", cap) /\ refreshing' = TRUE

\* the fetch at position i of inflight settles; onRefresh's finally clears refreshing
settle(i) ==
  /\ inflight' = SubSeq(inflight, 1, i - 1) \o SubSeq(inflight, i + 1, Len(inflight))
  /\ refreshing' = IF inflight[i] = "refresh" THEN FALSE ELSE refreshing

\* history: the fetch now started is the most recently started one
noteStarted == newest' = [pending |-> TRUE, result |-> Null]

\* history: when the most recently started fetch (the last of inflight while
\* it is pending) settles, what it returned
noteSettled(i, result) ==
  newest' = IF newest.pending /\ i = Len(inflight)
            THEN [pending |-> FALSE, result |-> result]
            ELSE newest

\* Mutant: the summary is computed from the records state of the render, not
\* from the fetched data.
applyDataStale(data) ==
  /\ records' = data
  /\ stats' = calculateStats(records)

\* setRecords(data); calculateStats(data)
applyData(data) ==
  /\ records' = data
  /\ stats' = calculateStats(data)

\* apiGet resolves with data
loadDataResolved(i, data) ==
  /\ i \in 1..Len(inflight)
  /\ applyData(data)
  /\ calcInvoked' = TRUE
  /\ lastResult' = Some(data)
  /\ settle(i)
  /\ noteSettled(i, Some(data))
  /\ UNCHANGED <<overlapped, selection, trends>>

\* Mutant: the catch block clears what the screen holds.
onLoadErrorClearing ==
  /\ calcInvoked' = FALSE
  /\ records' = <<>>
  /\ stats' = InitialStats

\* history: the metric types of every collection applied so far
noteLoaded(data) ==
  everLoaded' = everLoaded \cup {data[k].metric_type : k \in 1..Len(data)}

\* the catch block: console.error and Alert.alert only
onLoadError ==
  /\ calcInvoked' = FALSE
  /\ UNCHANGED <<records, stats>>

\* apiGet rejects
loadDataRejected(i) ==
  /\ i \in 1..Len(inflight)
  /\ onLoadError
  /\ settle(i)
  /\ noteSettled(i, Null)
  /\ UNCHANGED <<lastResult, overlapped, everLoaded, selection, trends>>

\* the state of StatisticsScreen other than the three selections
statisticsState == <<records, stats, refreshing, inflight, calcInvoked, lastResult,
                     overlapped, everLoaded, newest>>

fetchState == <<records, stats, refreshing, inflight, calcInvoked, lastResult, overlapped,
          everLoaded, newest, trends>>

handleSelectMetric(metric) ==
  /\ selectedMetric' = IF isValidMetric(metric) THEN metric ELSE selectedMetric
  /\ UNCHANGED <<timeRange, selectedDate, fetchState>>

\* a metric card's onPress
pressMetricCard(metric) ==
  /\ selectedMetric' = metric
  /\ UNCHANGED <<timeRange, selectedDate, fetchState>>

pressTimeRange(range) ==
  /\ timeRange' = range
  /\ UNCHANGED <<selectedMetric, selectedDate, fetchState>>

onDayPress(day) ==
  /\ selectedDate' = day
  /\ UNCHANGED <<selectedMetric, timeRange, fetchState>>

\* The whole screen, over collections of two measurements.
ScreenUniverse ==
  {Measurement("weight", 7000, "iso", Today - 1),
   Measurement("steps", 300000, "iso", subDays(Today, 10))}

Next ==
  \/ focus(MaxInflight) /\ UNCHANGED newest
  \/ onRefresh(MaxInflight) /\ UNCHANGED newest
  \/ \E i \in 1..MaxInflight, data \in Collections(ScreenUniverse) :
       loadDataResolved(i, data) /\ noteLoaded(data)
  \/ \E i \in 1..MaxInflight : loadDataRejected(i)
  \/ \E metric \in MetricInputs : handleSelectMetric(metric)
  \/ \E metric \in MetricSet : pressMetricCard(metric)
  \/ \E range \in Ranges : pressTimeRange(range)
  \/ \E day \in DayChoices : onDayPress(day)

Spec == Init /\ [][Next]_vars

\* ------------------------------------------------------------ properties

\* C2: whenever a collection has been applied, every metric with no matching
\* measurement in the collection applied last has the all-null summary with
\* trend none and change 0, whatever earlier collections contained.
C2_EmptyMetricIsReset ==
  lastResult /= Null =>
    \A m \in MetricSet :
      (\A k \in 1..Len(lastResult[1]) : lastResult[1][k].metric_type /= m) =>
        /\ stats[m].current = <<>>
        /\ stats[m].avg = <<>>
        /\ stats[m].min = <<>>
        /\ stats[m].max = <<>>
        /\ stats[m].trend = "none"
        /\ stats[m].change = 0

\* an earlier collection held weight measurements; the one applied last, which
\* is not empty, holds none
C2_Witness ==
  /\ lastResult /= Null
  /\ "weight" \in everLoaded
  /\ lastResult[1] /= <<>>
  /\ \A k \in 1..Len(lastResult[1]) : lastResult[1][k].metric_type /= "weight"

\* C6: once overlapping fetches have all completed, records is the result of
\* the fetch that completed (with a result) most recently and stats is the
\* summary of that same result.
C6_LastCompletedWins ==
  (overlapped /\ inflight = <<>> /\ lastResult /= Null) =>
    /\ records = lastResult[1]
    /\ stats = calculateStats(lastResult[1])

\* two fetches overlapped, both have completed, and the screen holds data
C6_Witness ==
  /\ overlapped
  /\ inflight = <<>>
  /\ lastResult /= Null
  /\ calcInvoked
  /\ records /= <<>>

\* C7: a step in which a fetch fails leaves records and stats as they were and
\* does not invoke calculateStats.
C7_FailedFetchIsAtomic ==
  [][(\E i \in 1..Len(inflight) : loadDataRejected(i)) =>
       (records' = records /\ stats' = stats /\ ~calcInvoked')]_vars

\* a fetch has just failed on a screen that already holds loaded data
C7_Witness ==
  /\ inflight = <<>>
  /\ ~calcInvoked
  /\ lastResult /= Null
  /\ records /= <<>>

\* ------------------------------------------------- the summary, on its own

\* Collections for the summary: values on both sides of a threshold, a zero,
\* a value with two decimals, and a source order that is not chronological.
StatsUniverse ==
  {Measurement("weight", 7000, "iso", subDays(Today, 5)),
   Measurement("weight", 7050, "iso", subDays(Today, 6)),
   Measurement("weight", 7054, "iso", subDays(Today, 1)),
   Measurement("weight", 7120, "iso", subDays(Today, 3)),
   Measurement("steps", 0, "iso", subDays(Today, 2)),
   Measurement("steps", 300000, "iso", subDays(Today, 4))}

NextStats ==
  \/ focus(1) /\ UNCHANGED newest
  \/ \E data \in Collections(StatsUniverse) :
       loadDataResolved(1, data) /\ UNCHANGED everLoaded
  \/ loadDataRejected(1)

SpecStats == Init /\ [][NextStats]_vars

\* positions in records of the measurements of metric m
Matching(m) == {k \in 1..Len(records) : records[k].metric_type = m}

FirstOf(m) == records[CHOOSE k \in Matching(m) : \A j \in Matching(m) : k <= j]

LastOf(m) == records[CHOOSE k \in Matching(m) : \A j \in Matching(m) : k >= j]

\* the threshold table of the specification, in hundredths
TableThreshold(m) ==
  CASE m = "weight" -> 50
    [] m = "heartRate" -> 500
    [] m = "steps" -> 50000
    [] m = "sleep" -> 50
    [] m = "water" -> 100

\* C1 as stated: with two or more measurements the trend follows from the
\* stored one-decimal change and the threshold.
C1_TrendFromStoredChange ==
  \A m \in MetricSet :
    Cardinality(Matching(m)) >= 2 =>
      LET c == stats[m].change
          th == TableThreshold(m)
      IN /\ (stats[m].trend = "up") <=> (c > th)
         /\ (stats[m].trend = "down") <=> (c < -th)
         /\ (stats[m].trend = "stable") <=> (-th <= c /\ c <= th)

\* C1 as amended: with two or more measurements the trend follows from the
\* unrounded difference last - first (source order) and the threshold.
C1_TrendFromRawChange ==
  \A m \in MetricSet :
    Cardinality(Matching(m)) >= 2 =>
      LET d == LastOf(m).value1 - FirstOf(m).value1
          th == TableThreshold(m)
      IN /\ (stats[m].trend = "up") <=> (d > th)
         /\ (stats[m].trend = "down") <=> (d < -th)
         /\ (stats[m].trend = "stable") <=> (-th <= d /\ d <= th)

\* weight 70.00 then 70.54: the difference 0.54 is above the threshold 0.5,
\* the stored change 0.5 is not
C1_Witness ==
  /\ Cardinality(Matching("weight")) >= 2
  /\ FirstOf("weight").value1 = 7000
  /\ LastOf("weight").value1 = 7054
  /\ stats["weight"].trend = "up"
  /\ stats["weight"].change = 50

\* C3 as stated: a metric with exactly one measurement of value v has
\* average = minimum = maximum = current = v and trend none.
C3_SingleMeasurement ==
  \A m \in MetricSet :
    Cardinality(Matching(m)) = 1 =>
      LET v == LastOf(m).value1
      IN /\ stats[m].avg = <<v>>
         /\ stats[m].min = <<v>>
         /\ stats[m].max = <<v>>
         /\ stats[m].current = <<v>>
         /\ stats[m].trend = "none"

\* C4 as stated: current is the value of the metric's measurement with the
\* latest loggedAt, whatever the source order (stated for a latest value
\* other than 0; C3 covers the value 0).
C4_CurrentIsLatest ==
  \A m \in MetricSet :
    \A k \in Matching(m) :
      (/\ records[k].value1 /= 0
       /\ \A j \in Matching(m) : records[j].logged_at.t <= records[k].logged_at.t)
        => stats[m].current = <<records[k].value1>>

\* C5: with two or more measurements change is last - first (source order) to
\* the nearest tenth; with fewer change is 0 and the trend is none.
C5_ChangeIsRoundedDifference ==
  \A m \in MetricSet :
    IF Cardinality(Matching(m)) >= 2
    THEN LET d == LastOf(m).value1 - FirstOf(m).value1
             c == stats[m].change
         IN /\ c % 10 = 0
            /\ c - d <= 5
            /\ d - c <= 5
    ELSE stats[m].change = 0 /\ stats[m].trend = "none"

\* weight 70.54 then 70.00: the difference -0.54 is stored as -0.5
C5_Witness ==
  /\ Cardinality(Matching("weight")) >= 2
  /\ FirstOf("weight").value1 = 7054
  /\ LastOf("weight").value1 = 7000
  /\ stats["weight"].change = -50

\* --------------------------------------------------- the chart, on its own

\* Collections for the chart: weight measurements on and one hour before the
\* lower bound of each window, and one measurement of another metric.
ChartUniverse ==
  {Measurement("weight", 7000, "iso", subDays(Today, 7)),
   Measurement("weight", 7120, "iso", subDays(Today, 7) - 1),
   Measurement("weight", 7000, "iso", subDays(Today, 30)),
   Measurement("weight", 7120, "iso", subDays(Today, 30) - 1),
   Measurement("weight", 7000, "iso", subDays(Today, 365)),
   Measurement("weight", 7120, "iso", subDays(Today, 365) - 1),
   Measurement("steps", 300000, "iso", Today - 1)}

NextChart ==
  \/ focus(1) /\ UNCHANGED newest
  \/ \E data \in Collections(ChartUniverse) :
       loadDataResolved(1, data) /\ UNCHANGED everLoaded
  \/ \E metric \in {"weight", "steps", "mood"} : handleSelectMetric(metric)
  \/ \E metric \in {"weight", "steps"} : pressMetricCard(metric)
  \/ \E range \in Ranges : pressTimeRange(range)

SpecChart == Init /\ [][NextChart]_vars

\* what the screen draws now
chartNow == getChartData(records, selectedMetric, timeRange, Today)

renderNow == renderChart(records, selectedMetric, timeRange, Today)

\* C9 as stated: whenever getChartData returns the "no data" sentinel,
\* renderChart shows the empty state and hands the sentinel to no chart.
C9_SentinelShowsEmptyState ==
  chartNow.labels = <<NoDataLabel>> => renderNow.view = "noData"

\* the days of each time range, as the specification gives them
WindowDays(range) ==
  CASE range = "week" -> 7 [] range = "month" -> 30 [] range = "year" -> 365

\* positions of the measurements of the selected metric logged at or after
\* now - windowDays
InWindowNow ==
  {k \in 1..Len(records) :
     /\ records[k].metric_type = selectedMetric
     /\ records[k].logged_at.kind = "iso"
     /\ records[k].logged_at.t >= Today - WindowDays(timeRange) * 24}

RECURSIVE SumAt(_)
SumAt(S) ==
  IF S = {} THEN 0
  ELSE LET k == CHOOSE x \in S : TRUE IN records[k].value1 + SumAt(S \ {k})

RECURSIVE TotalSum(_)
TotalSum(points) ==
  IF points = <<>> THEN 0 ELSE Head(points).sum + TotalSum(Tail(points))

RECURSIVE TotalCount(_)
TotalCount(points) ==
  IF points = <<>> THEN 0 ELSE Head(points).count + TotalCount(Tail(points))

\* C10: the series is built from exactly the measurements of the selected
\* metric logged at or after now - windowDays (7, 30, 365): each of them is
\* counted in a point, and nothing logged earlier is.
C10_WindowLowerBoundInclusive ==
  IF InWindowNow = {} THEN chartNow = NoData
  ELSE /\ {chartNow.labels[i] : i \in 1..Len(chartNow.labels)} =
            {formatMMdd(records[k].logged_at.t).value : k \in InWindowNow}
       /\ TotalCount(chartNow.data) = Cardinality(InWindowNow)
       /\ TotalSum(chartNow.data) = SumAt(InWindowNow)

\* a measurement exactly on the lower bound is drawn while one logged an hour
\* earlier is held but not drawn
C10_Witness ==
  /\ selectedMetric = "weight"
  /\ \E k \in InWindowNow :
       records[k].logged_at.t = Today - WindowDays(timeRange) * 24
  /\ \E k \in 1..Len(records) :
       /\ records[k].metric_type = "weight"
       /\ records[k].logged_at.t = Today - WindowDays(timeRange) * 24 - 1
  /\ TotalCount(chartNow.data) = 1

\* ------------------------------------------------ the calendar, on its own

\* Collections for the date-bucketed views: an unparsable timestamp, a missing
\* one, a metric type outside the five, two metrics on one day.
DateUniverse ==
  {Measurement("weight", 7054, "bad", 0),
   Measurement("weight", 7000, "iso", Today - 1),
   Measurement("steps", 300000, "null", 0),
   Measurement("steps", 310000, "iso", Today - 2),
   Measurement("mood", 500, "iso", subDays(Today, 1))}

NextDates ==
  \/ focus(1) /\ UNCHANGED newest
  \/ \E data \in Collections(DateUniverse) :
       loadDataResolved(1, data) /\ UNCHANGED everLoaded
  \/ \E metric \in MetricInputs : handleSelectMetric(metric)
  \/ \E day \in DayChoices : onDayPress(day)

SpecDates == Init /\ [][NextDates]_vars

\* C8 as stated: with a measurement whose timestamp is present but unparsable
\* in the collection, none of the date-bucketed aggregations raises, and
\* calculateStats still counts the measurement.
C8_BadTimestampNeverRaises ==
  (\E k \in 1..Len(records) : records[k].logged_at.kind = "bad") =>
    /\ ~getSelectedDateRecords(records, selectedDate).raised
    /\ ~chartNow.raised
    /\ ~getWeekComparison(records, selectedMetric, Today).raised
    /\ ~getMarkedDates(records, selectedDate).raised
    /\ \A m \in MetricSet : Matching(m) /= {} => stats[m].avg /= <<>>

\* -------------------------------------------------- the series, day by day

\* Collections for the points of the series: two measurements on today's
\* date, one on the same date a year earlier (inside the year window), one
\* three days ago, before the change of year.
SeriesUniverse ==
  {Measurement("weight", 1000, "iso", Today - 2),
   Measurement("weight", 2000, "iso", Today - 1),
   Measurement("weight", 3000, "iso", subDays(Today, 365) + 3),
   Measurement("weight", 4000, "iso", subDays(Today, 3))}

NextSeries ==
  \/ focus(1) /\ UNCHANGED newest
  \/ \E data \in Collections(SeriesUniverse) :
       loadDataResolved(1, data) /\ UNCHANGED everLoaded
  \/ \E range \in Ranges : pressTimeRange(range)

SpecSeries == Init /\ [][NextSeries]_vars

\* the calendar days (days since 2025-01-01) with an in-window measurement of
\* the selected metric
DaysInWindow == {records[k].logged_at.t \div 24 : k \in InWindowNow}

OnDay(d) == {k \in InWindowNow : records[k].logged_at.t \div 24 = d}

\* C11 as stated: the series has exactly one point per calendar day with an
\* in-window measurement of the selected metric, and the point of a day is the
\* mean (sum over count) of the measurements of that one day only.
C11_OnePointPerCalendarDay ==
  InWindowNow /= {} =>
    /\ Len(chartNow.data) = Cardinality(DaysInWindow)
    /\ \A d \in DaysInWindow :
         \E i \in 1..Len(chartNow.data) :
           /\ chartNow.data[i].count = Cardinality(OnDay(d))
           /\ chartNow.data[i].sum = SumAt(OnDay(d))

\* C16 as stated: the points are in ascending chronological order of the
\* calendar days they stand for, also across a change of year.
C16_PointsChronological ==
  \A i, j \in 1..Len(chartNow.labels) :
    i < j =>
      \A k, l \in InWindowNow :
        (/\ formatMMdd(records[k].logged_at.t).value = chartNow.labels[i]
         /\ formatMMdd(records[l].logged_at.t).value = chartNow.labels[j])
          => records[k].logged_at.t \div 24 < records[l].logged_at.t \div 24

\* ------------------------------------------------ the two weeks, on their own

\* Collections for the week comparison: weight measurements on the first and
\* the last hour of the current week (Sunday 2025-12-28 to Saturday
\* 2026-01-03), on the last hour of the previous week and one hour before the
\* previous week, and a steps measurement on the first hour of the previous
\* week.
WeekUniverse ==
  {Measurement("weight", 7000, "iso", 361 * 24),
   Measurement("weight", 7054, "iso", 368 * 24 - 1),
   Measurement("weight", 7120, "iso", 361 * 24 - 1),
   Measurement("weight", 7000, "iso", 354 * 24 - 1),
   Measurement("steps", 300000, "iso", 354 * 24)}

NextWeek ==
  \/ focus(1) /\ UNCHANGED newest
  \/ \E data \in Collections(WeekUniverse) :
       loadDataResolved(1, data) /\ UNCHANGED everLoaded
  \/ \E metric \in {"weight", "steps", "mood"} : handleSelectMetric(metric)

SpecWeek == Init /\ [][NextWeek]_vars

weekNow == getWeekComparison(records, selectedMetric, Today)

\* positions of the measurements of the selected metric logged from the hour
\* `from` to the hour `to`, both included
LoggedWithin(from, to) ==
  {k \in 1..Len(records) :
     /\ records[k].metric_type = selectedMetric
     /\ records[k].logged_at.kind = "iso"
     /\ from <= records[k].logged_at.t
     /\ records[k].logged_at.t <= to}

\* the week of Today, Sunday 2025-12-28 00:00 to Saturday 2026-01-03 23:59
ThisWeek == LoggedWithin(361 * 24, 368 * 24 - 1)

\* the week before, Sunday 2025-12-21 00:00 to Saturday 2025-12-27 23:59
PreviousWeek == LoggedWithin(354 * 24, 361 * 24 - 1)

\* a (hundredths) is exactly the mean of the values at S, or 0 when S is empty
IsMeanOf(a, S) == IF S = {} THEN a = 0 ELSE a * Cardinality(S) = SumAt(S)

\* a (hundredths) is a tenth nearest to num/den
IsNearestTenth(a, num, den) ==
  /\ a % 10 = 0
  /\ a * den - num <= 5 * den
  /\ num - a * den <= 5 * den

CountOrOne(S) == IF S = {} THEN 1 ELSE Cardinality(S)

\* the difference of the two means is num/den with these
MeanDiffNum == SumAt(ThisWeek) * CountOrOne(PreviousWeek)
               - SumAt(PreviousWeek) * CountOrOne(ThisWeek)

MeanDiffDen == CountOrOne(ThisWeek) * CountOrOne(PreviousWeek)

\* C12 as stated: each reported average is the arithmetic mean of the week's
\* values (0 for a week without any), and change is their difference to one
\* decimal.
C12_WeekMeansExact ==
  /\ IsMeanOf(weekNow.currentWeekAvg, ThisWeek)
  /\ IsMeanOf(weekNow.lastWeekAvg, PreviousWeek)
  /\ IsNearestTenth(weekNow.change, MeanDiffNum, MeanDiffDen)

\* C12 as amended: each reported average is the arithmetic mean of the week's
\* values to one decimal (0 for a week without any), and change is the
\* difference of the unrounded means to one decimal.
C12_WeekMeansRounded ==
  /\ IsNearestTenth(weekNow.currentWeekAvg, SumAt(ThisWeek), CountOrOne(ThisWeek))
  /\ IsNearestTenth(weekNow.lastWeekAvg, SumAt(PreviousWeek), CountOrOne(PreviousWeek))
  /\ ThisWeek = {} => weekNow.currentWeekAvg = 0
  /\ PreviousWeek = {} => weekNow.lastWeekAvg = 0
  /\ IsNearestTenth(weekNow.change, MeanDiffNum, MeanDiffDen)
  /\ (ThisWeek = {} /\ PreviousWeek = {}) => weekNow.change = 0

\* 70.54 on the last hour of this week and 71.20 on the last hour of the
\* previous one: 70.5, 71.2 and change -0.7
C12_Witness ==
  /\ selectedMetric = "weight"
  /\ \E k \in ThisWeek : records[k].logged_at.t = 368 * 24 - 1
  /\ \E k \in PreviousWeek : records[k].logged_at.t = 361 * 24 - 1
  /\ weekNow.currentWeekAvg = 7050
  /\ weekNow.lastWeekAvg = 7120
  /\ weekNow.change = -70

\* C13, C14 --------------------------------------------------------------

markedNow == getMarkedDates(records, selectedDate)

listNow == getSelectedDateRecords(records, selectedDate)

\* positions of the measurements with a calendar day
Stamped == {k \in 1..Len(records) : records[k].logged_at.kind = "iso"}

\* the 'yyyy-MM-dd' day of the measurement at k
DayKey(k) == formatYMD(records[k].logged_at.t).value

FirstOfItsDay(k) == \A j \in Stamped : DayKey(j) = DayKey(k) => k <= j

\* the marker colours of the specification's five metrics, and the default
MarkerColour(metric) ==
  CASE metric = "weight" -> "#4F46E5"
    [] metric = "heartRate" -> "#DC2626"
    [] metric = "steps" -> "#10B981"
    [] metric = "sleep" -> "#8B5CF6"
    [] metric = "water" -> "#0EA5E9"
    [] OTHER -> "#4F46E5"

\* C13 as stated: getMarkedDates marks exactly the calendar days with a
\* timestamped measurement, each in the colour of the day's first measurement
\* in source order, and flags the selected date, keeping its marker.
C13_MarkedDays ==
  /\ ~markedNow.raised
  /\ DOMAIN markedNow.value = {DayKey(k) : k \in Stamped} \cup {selectedDate}
  /\ \A k \in Stamped :
       FirstOfItsDay(k) =>
         /\ markedNow.value[DayKey(k)].marked
         /\ markedNow.value[DayKey(k)].dotColor = <<MarkerColour(records[k].metric_type)>>
  /\ \A x \in DOMAIN markedNow.value :
       /\ markedNow.value[x].selected <=> (x = selectedDate)
       /\ markedNow.value[x].marked <=> (\E k \in Stamped : DayKey(k) = x)

\* the collection without the measurements of a metric type outside the five
KnownOnly == SelectSeq(records, LAMBDA r : r.metric_type \in MetricSet)

Unknown == {k \in Stamped : records[k].metric_type \notin MetricSet}

\* C14 as stated: measurements of a type outside the five change no summary,
\* series or week comparison; they are listed on their selected day and mark
\* their day (in the default colour when first of the day); the selected
\* metric is one of the five.
C14_UnknownTypesAreInert ==
  /\ stats = calculateStats(KnownOnly)
  /\ \A m \in MetricSet :
       /\ getWeekComparison(records, m, Today) = getWeekComparison(KnownOnly, m, Today)
       /\ \A range \in Ranges :
            getChartData(records, m, range, Today) = getChartData(KnownOnly, m, range, Today)
  /\ \A k \in Unknown :
       /\ ~listNow.raised /\ ~markedNow.raised
       /\ DayKey(k) = selectedDate =>
            \E i \in 1..Len(listNow.value) : listNow.value[i] = records[k]
       /\ markedNow.value[DayKey(k)].marked
       /\ FirstOfItsDay(k) => markedNow.value[DayKey(k)].dotColor = <<"#4F46E5">>
  /\ selectedMetric \in MetricSet

\* C15 -------------------------------------------------------------------
\* Overlapping fetches, with the most recently started one tracked.

NextRace ==
  \/ focus(MaxInflight) /\ noteStarted
  \/ onRefresh(MaxInflight) /\ noteStarted
  \/ \E i \in 1..MaxInflight, data \in Collections(ScreenUniverse) :
       loadDataResolved(i, data) /\ noteLoaded(data)
  \/ \E i \in 1..MaxInflight : loadDataRejected(i)

SpecRace == Init /\ [][NextRace]_vars

\* C15 as stated: once every fetch has settled, what the screen holds is the
\* result of the most recently started fetch, never that of an earlier-started
\* one that completed after it.
C15_LatestStartedWins ==
  (inflight = <<>> /\ ~newest.pending /\ newest.result /= Null) =>
    /\ records = newest.result[1]
    /\ stats = calculateStats(newest.result[1])

\* TrendsScreen ------------------------------------------------------------
\* trends.pc is the position of the mount effect's fetchTrends: "mounted"
\* before the effect runs, "fetching" while apiGet('/health-logs/trends') is
\* awaited, "done" after the continuation (try or catch, then finally) ran.
\* trends.outcome is how the awaited promise settled.  Messages are rendered
\* here in English.

NoTrendDataMessage == "not enough data to show a trend"

DefaultErrorMessage == "loading trend data failed"

\* e.message of the TypeError raised by `trendsData.points` on a null payload
NullPayloadMessage == "Cannot read property 'points' of null"

\* TrendPoint values; date as yyyymmdd
TrendPoints ==
  {[date |-> formatYMD(Today - 48).value, avg |-> 7000],
   [date |-> formatYMD(Today - 24).value, avg |-> 7050],
   [date |-> formatYMD(Today).value, avg |-> 7120]}

\* what the endpoint can resolve with: null, or a TrendsData whose points is
\* missing or a list, and whose trend and weekly_change are optional
TrendsPayloads ==
  {Null} \cup
  {Some([points |-> pts, trend |-> tr, weekly_change |-> wc]) :
     pts \in {Null} \cup {Some(ps) : ps \in Collections(TrendPoints)},
     tr \in {Null, Some("up"), Some("down"), Some("stable")},
     wc \in {Null, Some(50)}}

\* the message of the Error a rejection carries
RejectionMessages == {"", "Network request failed"}

\* !trendsData.points || trendsData.points.length === 0
pointsMissingOrEmpty(trendsData) ==
  trendsData.points = Null \/ Len(trendsData.points[1]) = 0

\* the try block after the await, for a payload that is an object
onTrendsData(t, trendsData) ==
  IF pointsMissingOrEmpty(trendsData)
  THEN [t EXCEPT !.error = Some(NoTrendDataMessage)]
  ELSE [t EXCEPT !.data = Some(trendsData)]

\* Mutant: the error state takes e.message as it is.
onTrendsErrorRaw(t, message) == [t EXCEPT !.error = Some(message)]

\* the catch block: setError(e.message || default); Alert.alert(...)
onTrendsError(t, message) ==
  [t EXCEPT !.error = Some(IF message = "" THEN DefaultErrorMessage ELSE message)]

\* the finally block: setLoading(false)
onTrendsFinally(t) == [t EXCEPT !.loading = FALSE, !.pc = "done"]

\* useEffect(..., []): fetchTrends() runs up to its await
trendsEffect ==
  /\ trends.pc = "mounted"
  /\ trends' = [trends EXCEPT !.loading = TRUE, !.error = Null, !.pc = "fetching"]
  /\ UNCHANGED <<statisticsState, selection>>

\* apiGet resolves; a null payload raises inside the try block and is caught
trendsResolved(payload) ==
  /\ trends.pc = "fetching"
  /\ LET settled == [trends EXCEPT
                       !.outcome = [kind |-> "resolved", payload |-> payload, message |-> ""]]
     IN trends' = onTrendsFinally(
                    IF payload = Null
                    THEN onTrendsError(settled, NullPayloadMessage)
                    ELSE onTrendsData(settled, payload[1]))
  /\ UNCHANGED <<statisticsState, selection>>

\* apiGet rejects with an Error
trendsRejected(message) ==
  /\ trends.pc = "fetching"
  /\ LET settled == [trends EXCEPT
                       !.outcome = [kind |-> "rejected", payload |-> Null, message |-> message]]
     IN trends' = onTrendsFinally(onTrendsError(settled, message))
  /\ UNCHANGED <<statisticsState, selection>>

\* renderContent(): which branch the render takes
renderContent(t) ==
  IF t.loading THEN "spinner"
  ELSE IF t.error /= Null /\ t.error[1] /= "" THEN "error"
  ELSE IF t.data /= Null THEN "chart"
  ELSE "nothing"

NextTrends ==
  \/ trendsEffect
  \/ \E payload \in TrendsPayloads : trendsResolved(payload)
  \/ \E message \in RejectionMessages : trendsRejected(message)

SpecTrends == Init /\ [][NextTrends]_vars

\* the state holds a truthy value
DataSet == trends.data /= Null

ErrorSet == trends.error /= Null /\ trends.error[1] /= ""

\* the fetch resolved with a payload carrying at least one point
SucceededWithPoints ==
  /\ trends.outcome.kind = "resolved"
  /\ trends.outcome.payload /= Null
  /\ trends.outcome.payload[1].points /= Null
  /\ Len(trends.outcome.payload[1].points[1]) >= 1

\* the fetch failed, or resolved without a non-empty points list
FailedOrNoPoints ==
  \/ trends.outcome.kind = "rejected"
  \/ trends.outcome.kind = "resolved" /\ ~SucceededWithPoints

TrendsStates ==
  /\ trends.loading <=> trends.outcome.kind = "none"
  /\ ~trends.loading =>
       /\ DataSet <=> ~ErrorSet
       /\ DataSet <=> SucceededWithPoints
       /\ ErrorSet <=> FailedOrNoPoints
  /\ renderContent(trends) = "chart" =>
       /\ trends.data[1].points /= Null
       /\ Len(trends.data[1].points[1]) >= 1
       /\ trends.data = trends.outcome.payload

\* C17: loading is true from mount until the one fetch settles and false ever
\* after; once loading is false exactly one of data and error is set, data
\* exactly when the fetch succeeded with at least one point, error exactly when
\* it failed or brought no points; the chart is rendered only from a payload
\* with at least one point.
C17_TrendsLoadStateMachine ==
  /\ []TrendsStates
  /\ [][~trends.loading => ~trends'.loading]_vars
  /\ [][trends.outcome.kind /= "none" => trends'.outcome = trends.outcome]_vars

\* the fetch succeeded with two points and the chart is rendered
C17_Witness ==
  /\ trends.pc = "done"
  /\ renderContent(trends) = "chart"
  /\ Len(trends.data[1].points[1]) = 2

====
